---- MODULE Spec2Model ----
(***************************************************************************)
(* A model of the shock-wave strike counter: the command-line resolver     *)
(* (_parse_arguments), the dispatcher (main), the application layer (App)  *)
(* and the SQLite store (Database).                                        *)
(*                                                                         *)
(* Text is modelled as a sequence of character codes (ASCII / Latin-1      *)
(* code points), so that lower-casing, string comparison and the ISO-8601  *)
(* serialisation of timestamps are computed, not assumed.                  *)
(***************************************************************************)
EXTENDS Integers, Sequences, FiniteSets, TLC

(***************************************************************************)
(* Optional values (Python's None / SQL's NULL).                           *)
(***************************************************************************)
NoStr == [has |-> FALSE, v |-> <<>>]
SomeStr(s) == [has |-> TRUE, v |-> s]
NoInt == [has |-> FALSE, v |-> 0]
SomeInt(n) == [has |-> TRUE, v |-> n]

\* Python truthiness of an optional string: None and "" are both falsy.
Truthy(o) == o.has /\ o.v # <<>>

(***************************************************************************)
(* Text.                                                                   *)
(***************************************************************************)
\* str.lower(): Unicode-aware; here ASCII A-Z and Latin-1 E-acute (201 -> 233).
PyLowerChar(c) ==
    IF c \in 65..90 THEN c + 32 ELSE IF c = 201 THEN 233 ELSE c

PyLower(s) == [i \in 1..Len(s) |-> PyLowerChar(s[i])]

\* SQLite's built-in LOWER(): folds ASCII A-Z only.
SqlLowerChar(c) == IF c \in 65..90 THEN c + 32 ELSE c

SqlLower(s) == [i \in 1..Len(s) |-> SqlLowerChar(s[i])]

\* Code-point order of two texts (Python's str "<", SQLite's BINARY collation).
StrLess(a, b) ==
    \E i \in 1..(Len(a) + 1) :
        /\ \A j \in 1..(i - 1) : j <= Len(b) /\ a[j] = b[j]
        /\ \/ i = Len(a) + 1 /\ i <= Len(b)
           \/ i <= Len(a) /\ i <= Len(b) /\ a[i] < b[i]

\* Order of two optional texts in an ascending SQL ORDER BY: NULL sorts first.
SqlLess(x, y) ==
    \/ ~x.has /\ y.has
    \/ x.has /\ y.has /\ StrLess(x.v, y.v)

\* LOWER(tag) of a nullable column: LOWER(NULL) is NULL.
SqlLowerOpt(x) == IF x.has THEN SomeStr(SqlLower(x.v)) ELSE NoStr

(***************************************************************************)
(* Timestamps.  A UTC instant is [day, hour, us]: the calendar day, the    *)
(* hour of the day, and the sub-second part (0 when the clock reads a      *)
(* whole second).  isoformat() writes fixed-width zero-padded fields and   *)
(* leaves the fraction out altogether when it is 0.                        *)
(***************************************************************************)
Digit(n) == 48 + n

\* datetime.isoformat() of an aware UTC datetime: "DDTHH[.F]+" here stands for
\* "YYYY-MM-DDTHH:MM:SS[.ffffff]+00:00".
isoformat(dt) ==
    <<Digit(dt.day \div 10), Digit(dt.day % 10), 84,
      Digit(dt.hour \div 10), Digit(dt.hour % 10)>>
    \o (IF dt.us = 0 THEN <<>> ELSE <<46, Digit(dt.us)>>)
    \o <<43>>

\* datetime.fromisoformat() / SQLite's date-time parser on such a text.
fromisoformat(s) ==
    [day  |-> 10 * (s[1] - 48) + (s[2] - 48),
     hour |-> 10 * (s[4] - 48) + (s[5] - 48),
     us   |-> IF s[6] = 46 THEN s[7] - 48 ELSE 0]

\* The local calendar date of an instant, tz hours east of UTC:
\* DATE(entry_datetime, 'localtime') and datetime.astimezone().date().
LocalDate(dt, tz) == (dt.day * 24 + dt.hour + tz) \div 24

\* Chronological order of two instants.
Earlier(d1, d2) ==
    \/ d1.day < d2.day
    \/ d1.day = d2.day /\ d1.hour < d2.hour
    \/ d1.day = d2.day /\ d1.hour = d2.hour /\ d1.us < d2.us

(***************************************************************************)
(* Bounds and input pools.                                                 *)
(***************************************************************************)
\* Rows the log may hold in the store specification.
MaxEntries == 3

\* Rows the log may hold in the command-line specification.
CliMaxEntries == 2

\* "", "ab", "Ab", "1"
TagPool == { <<>>, <<97, 98>>, <<65, 98>>, <<49>> }

OptTagPool == {NoStr} \cup {SomeStr(t) : t \in TagPool}

\* The tag arguments of the command-line specification: none, "", "Ab".
CliTagPool == {NoStr, SomeStr(<<>>), SomeStr(<<65, 98>>)}

\* Readings of the UTC wall clock (datetime.now is not monotonic).
ClockPool ==
    { [day |-> 1, hour |-> 23, us |-> 0],
      [day |-> 1, hour |-> 23, us |-> 5],
      [day |-> 2, hour |-> 0,  us |-> 0] }

\* Offsets of the local time zone from UTC, in hours.
TzPool == {-1, 0, 1}

\* The amount positional as typed: absent, an integer, or a non-numeric word.
AmountPool ==
    { [kind |-> "absent", v |-> 0], [kind |-> "text", v |-> 0] }
    \cup { [kind |-> "int", v |-> n] : n \in {-1, 0, 1} }

\* Every argument list over the pools (--debug only changes logging and is
\* left out).  session_tag is the second positional: it is only ever filled
\* after count_to_add.
ArgLists ==
    { a \in [count : BOOLEAN, summary : BOOLEAN, detail : BOOLEAN,
             by_date : BOOLEAN, info : BOOLEAN, filter_tag : CliTagPool,
             amount : AmountPool, session_tag : CliTagPool] :
        a.session_tag.has => a.amount.kind # "absent" }

(***************************************************************************)
(* _parse_arguments.                                                       *)
(***************************************************************************)
NoNamespace ==
    [count |-> FALSE, summary |-> FALSE, detail |-> FALSE, by_date |-> FALSE,
     info |-> FALSE, filter_tag |-> NoStr, count_to_add |-> NoInt,
     session_tag |-> NoStr, operation_mode |-> "none"]

\* Variant: a usage error that ends the process with status 1.
parser_error_status_1(msg) ==
    [ok |-> FALSE, msg |-> msg, status |-> 1, ns |-> NoNamespace]

\* parser.error(message): usage and message on stderr, then SystemExit(2).
parser_error(msg) ==
    [ok |-> FALSE, msg |-> msg, status |-> 2, ns |-> NoNamespace]

\* The first if/elif chain: which mode the flags select.
operation_mode(args) ==
    IF args.info THEN "info"
    ELSE IF args.detail THEN "detail"
    ELSE IF args.summary THEN "summary"
    ELSE IF args.count \/ Truthy(args.filter_tag) THEN "count_total"
    ELSE IF args.count_to_add.has THEN "add_entry"
    ELSE "none"

\* "args.count_to_add is not None or args.session_tag is not None"
positional(args) == args.count_to_add.has \/ args.session_tag.has

\* The per-mode validation blocks: the message of the first failing check of
\* the block, or "" when the block lets the namespace through.
validate_info(args) ==
    IF \/ args.count_to_add.has \/ args.session_tag.has
       \/ args.count \/ args.summary \/ args.detail
       \/ args.filter_tag.has \/ args.by_date
    THEN "--info cannot be used with other operational arguments like <count_to_add>, [session_tag], --count, --summary, --detail, --filter-tag, or --by-date."
    ELSE ""

validate_add_entry(args) ==
    IF args.session_tag.has /\ ~args.count_to_add.has
    THEN "[session_tag] can only be used when <count_to_add> is also provided."
    ELSE IF \/ args.count \/ args.summary \/ args.detail
            \/ Truthy(args.filter_tag) \/ args.by_date \/ args.info
    THEN "Operational flags like --count, --summary, --detail, --filter-tag, --by-date, --info cannot be used when <count_to_add> is provided."
    ELSE ""

validate_count_total(args) ==
    IF positional(args)
    THEN "<count_to_add> and [session_tag] cannot be used with --count or --filter-tag."
    ELSE IF args.summary \/ args.detail \/ args.info \/ args.by_date
    THEN "--summary, --detail, --info, or --by-date cannot be used with --count or --filter-tag."
    ELSE ""

validate_summary(args) ==
    IF positional(args)
    THEN "<count_to_add> and [session_tag] cannot be used with --summary."
    ELSE IF \/ args.count \/ Truthy(args.filter_tag) \/ args.detail
            \/ args.info \/ args.by_date
    THEN "--count, --filter-tag, --detail, --info, or --by-date cannot be used with --summary."
    ELSE ""

\* Variant: the detail block without its last check.
validate_detail_without_summary_check(args) ==
    IF positional(args)
    THEN "<count_to_add> and [session_tag] cannot be used with --detail."
    ELSE IF args.count /\ ~Truthy(args.filter_tag)
    THEN "Explicit --count cannot be used with --detail. Use --filter-tag for filtering details."
    ELSE ""

validate_detail(args) ==
    IF positional(args)
    THEN "<count_to_add> and [session_tag] cannot be used with --detail."
    ELSE IF args.count /\ ~Truthy(args.filter_tag)
    THEN "Explicit --count cannot be used with --detail. Use --filter-tag for filtering details."
    ELSE IF args.summary \/ args.info
    THEN "--summary or --info cannot be used with --detail."
    ELSE ""

validate(args, mode) ==
    CASE mode = "none" ->
           "<count_to_add> is required unless using --info, --count, --filter-tag, --summary, or --detail."
      [] mode = "info" -> validate_info(args)
      [] mode = "add_entry" -> validate_add_entry(args)
      [] mode = "count_total" -> validate_count_total(args)
      [] mode = "summary" -> validate_summary(args)
      [] mode = "detail" -> validate_detail(args)

parse_arguments(argv) ==
    IF argv.amount.kind = "text"
    THEN parser_error("argument count_to_add: invalid int value")
    ELSE LET args == [count |-> argv.count, summary |-> argv.summary,
                      detail |-> argv.detail, by_date |-> argv.by_date,
                      info |-> argv.info, filter_tag |-> argv.filter_tag,
                      count_to_add |-> IF argv.amount.kind = "int"
                                       THEN SomeInt(argv.amount.v) ELSE NoInt,
                      session_tag |-> argv.session_tag]
             mode == operation_mode(args)
             msg  == validate(args, mode)
         IN  IF msg # ""
             THEN parser_error(msg)
             ELSE [ok |-> TRUE, msg |-> "", status |-> 0,
                   ns |-> [count |-> args.count, summary |-> args.summary,
                           detail |-> args.detail, by_date |-> args.by_date,
                           info |-> args.info, filter_tag |-> args.filter_tag,
                           count_to_add |-> args.count_to_add,
                           session_tag |-> args.session_tag,
                           operation_mode |-> mode]]

(***************************************************************************)
(* Database: the strike_log table is the sequence of its rows in rowid     *)
(* order; a row is [id, strikes_count, entry_datetime, tag] with           *)
(* entry_datetime the ISO text and tag a nullable text.                    *)
(***************************************************************************)
RECURSIVE SumCounts(_)
SumCounts(rs) ==
    IF rs = <<>> THEN 0 ELSE Head(rs).strikes_count + SumCounts(Tail(rs))

\* SQL SUM(strikes_count): NULL over no rows.
SqlSum(rs) == IF rs = <<>> THEN NoInt ELSE SomeInt(SumCounts(rs))

\* Variant: the parameter is bound as given, without tag.lower().
WhereTag_parameter_not_lowered(rs, tag) ==
    IF Truthy(tag)
    THEN SelectSeq(rs, LAMBDA r : r.tag.has /\ SqlLower(r.tag.v) = tag.v)
    ELSE rs

\* The optional " WHERE LOWER(tag) = ?" with the parameter tag.lower();
\* "if tag:" leaves the filter off for None and for "".
WhereTag(rs, tag) ==
    IF Truthy(tag)
    THEN SelectSeq(rs, LAMBDA r : r.tag.has /\ SqlLower(r.tag.v) = PyLower(tag.v))
    ELSE rs

\* Variant: INSERT OR REPLACE under the largest id in use, which overwrites
\* the newest row.
Database_add_strike_entry_replaces(rs, last, strikes_count, entry_datetime, tag) ==
    LET row == [id |-> IF rs = <<>> THEN 1 ELSE last,
                strikes_count |-> strikes_count,
                entry_datetime |-> isoformat(entry_datetime), tag |-> tag]
    IN  IF rs = <<>> THEN <<row>> ELSE [rs EXCEPT ![Len(rs)] = row]

\* INSERT INTO strike_log (strikes_count, entry_datetime, tag): AUTOINCREMENT
\* gives the row the id after the largest one ever used.
Database_add_strike_entry(rs, last, strikes_count, entry_datetime, tag) ==
    Append(rs, [id |-> last + 1, strikes_count |-> strikes_count,
                entry_datetime |-> isoformat(entry_datetime), tag |-> tag])

get_total_strikes(rs, tag) ==
    LET result == SqlSum(WhereTag(rs, tag))
    IN  IF result.has THEN result.v ELSE 0

\* The distinct values of a set of nullable texts in ascending order.
RECURSIVE OrderByTag(_)
OrderByTag(S) ==
    IF S = {} THEN <<>>
    ELSE LET m == CHOOSE x \in S : \A y \in S \ {x} : SqlLess(x, y)
         IN  <<m>> \o OrderByTag(S \ {m})

\* Variant: the grouping query skips the rows without a tag.
GroupByTag_tagged_rows_only(rs) ==
    LET keys == OrderByTag({rs[i].tag : i \in 1..Len(rs)} \ {NoStr})
    IN  [k \in 1..Len(keys) |->
            [tag |-> keys[k],
             n   |-> SumCounts(SelectSeq(rs, LAMBDA r : r.tag = keys[k]))]]

\* SELECT tag, SUM(strikes_count) ... GROUP BY tag ORDER BY tag.
GroupByTag(rs) ==
    LET keys == OrderByTag({rs[i].tag : i \in 1..Len(rs)})
    IN  [k \in 1..Len(keys) |->
            [tag |-> keys[k],
             n   |-> SumCounts(SelectSeq(rs, LAMBDA r : r.tag = keys[k]))]]

RECURSIVE SumN(_)
SumN(gs) == IF gs = <<>> THEN 0 ELSE Head(gs).n + SumN(Tail(gs))

\* The dict is the fetched rows in insertion order (one key per group); the
\* grand total is accumulated over the same rows.
get_summary_by_tag(rs) ==
    LET fetched == GroupByTag(rs)
    IN  [tag_summaries |-> fetched, grand_total |-> SumN(fetched)]

\* Variant: entry_datetime ASC.
TagThenDate_oldest_first(r1, r2) ==
    LET t1 == SqlLowerOpt(r1.tag)
        t2 == SqlLowerOpt(r2.tag)
    IN  \/ SqlLess(t1, t2)
        \/ t1 = t2 /\ ~StrLess(r2.entry_datetime, r1.entry_datetime)

\* " ORDER BY LOWER(tag) ASC, entry_datetime DESC": r1 may stand before r2.
TagThenDate(r1, r2) ==
    LET t1 == SqlLowerOpt(r1.tag)
        t2 == SqlLowerOpt(r2.tag)
    IN  \/ SqlLess(t1, t2)
        \/ t1 = t2 /\ ~StrLess(r1.entry_datetime, r2.entry_datetime)

\* Variant: DATE(entry_datetime) without 'localtime', the UTC date.
DateThenTag_utc_date(r1, r2, tz) ==
    LET d1 == LocalDate(fromisoformat(r1.entry_datetime), 0)
        d2 == LocalDate(fromisoformat(r2.entry_datetime), 0)
    IN  \/ d1 < d2
        \/ d1 = d2 /\ ~SqlLess(SqlLowerOpt(r2.tag), SqlLowerOpt(r1.tag))

\* " ORDER BY DATE(entry_datetime, 'localtime') ASC, LOWER(tag) ASC".
DateThenTag(r1, r2, tz) ==
    LET d1 == LocalDate(fromisoformat(r1.entry_datetime), tz)
        d2 == LocalDate(fromisoformat(r2.entry_datetime), tz)
    IN  \/ d1 < d2
        \/ d1 = d2 /\ ~SqlLess(SqlLowerOpt(r2.tag), SqlLowerOpt(r1.tag))

OrderBy(r1, r2, sort_by_date_first, tz) ==
    IF sort_by_date_first THEN DateThenTag(r1, r2, tz) ELSE TagThenDate(r1, r2)

\* Every arrangement of the rows sel[i], i \in I, that satisfies the ORDER
\* BY: a row that may stand before all the others, then the rest.
RECURSIVE Orderings(_, _, _, _)
Orderings(sel, I, sort_by_date_first, tz) ==
    IF I = {} THEN {<<>>}
    ELSE UNION
           { {<<i>> \o rest :
                 rest \in Orderings(sel, I \ {i}, sort_by_date_first, tz)} :
               i \in {m \in I :
                        \A j \in I :
                           OrderBy(sel[m], sel[j], sort_by_date_first, tz)} }

\* Every result the query may fetch: the selected rows as (tag,
\* entry_datetime, strikes_count), in any order that satisfies the ORDER BY
\* (SQL leaves the order of rows with equal keys open).
get_strike_details(rs, tag, sort_by_date_first, tz) ==
    LET sel == WhereTag(rs, tag)
        n   == Len(sel)
    IN  { [i \in 1..n |-> [tag |-> sel[p[i]].tag,
                           entry_datetime |-> sel[p[i]].entry_datetime,
                           strikes_count |-> sel[p[i]].strikes_count]] :
            p \in Orderings(sel, 1..n, sort_by_date_first, tz) }

(***************************************************************************)
(* App: what each mode prints.  An output line is [k, tag, n, d, h]: its   *)
(* kind, and the tag, count, local date and local hour it shows.           *)
(***************************************************************************)
Line(k, tag, n, d, h) == [k |-> k, tag |-> tag, n |-> n, d |-> d, h |-> h]

Text(k) == Line(k, NoStr, 0, 0, 0)

\* Variant: the tag is kept as typed.
processed_tag_as_typed(tag) == IF Truthy(tag) THEN SomeStr(tag.v) ELSE NoStr

\* "processed_tag = session_tag.lower()" under "if session_tag:", and the
\* same steps on a filter tag.
processed_tag(tag) == IF Truthy(tag) THEN SomeStr(PyLower(tag.v)) ELSE NoStr

\* Variant: only negative counts are refused.
invalid_count_negative_only(count_to_add) == count_to_add < 0

\* "if count_to_add <= 0:" in App.add_strike_entry.
invalid_count(count_to_add) == count_to_add <= 0

\* query_total_strikes: the one line printed for a total.
query_total_strikes(rs, filter_tag) ==
    LET processed_filter_tag == processed_tag(filter_tag)
        total_strikes == get_total_strikes(rs, processed_filter_tag)
    IN  IF Truthy(processed_filter_tag)
        THEN IF total_strikes > 0
             THEN <<Line("Total strikes for tag", processed_filter_tag,
                         total_strikes, 0, 0)>>
             ELSE <<Line("No strikes found for tag", processed_filter_tag,
                         0, 0, 0)>>
        ELSE IF total_strikes > 0
             THEN <<Line("Total strikes", NoStr, total_strikes, 0, 0)>>
             ELSE <<Text("No strikes recorded yet.")>>

\* Variant: key=lambda t: (t is not None, t), None first.
SummaryKeyLess_none_first(x, y) ==
    \/ ~x.has /\ y.has
    \/ x.has /\ y.has /\ StrLess(x.v, y.v)

\* key=lambda t: (t is None, t): the order of two dict keys under sorted().
SummaryKeyLess(x, y) ==
    \/ x.has /\ ~y.has
    \/ x.has /\ y.has /\ StrLess(x.v, y.v)

RECURSIVE SortSummaryKeys(_)
SortSummaryKeys(S) ==
    IF S = {} THEN <<>>
    ELSE LET m == CHOOSE x \in S : \A y \in S \ {x} : SummaryKeyLess(x, y)
         IN  <<m>> \o SortSummaryKeys(S \ {m})

\* sorted(tag_summaries.keys(), key=...)
sorted_summary_tags(tag_summaries) ==
    SortSummaryKeys({tag_summaries[i].tag : i \in 1..Len(tag_summaries)})

\* tag_summaries[tag]
SummaryCount(tag_summaries, tag) ==
    LET i == CHOOSE j \in 1..Len(tag_summaries) : tag_summaries[j].tag = tag
    IN  tag_summaries[i].n

query_summary(rs) ==
    LET s == get_summary_by_tag(rs)
        sorted_tags == sorted_summary_tags(s.tag_summaries)
    IN  IF s.tag_summaries = <<>> /\ s.grand_total = 0
        THEN <<Text("No strikes recorded yet.")>>
        ELSE <<Text("Strike Summary:")>>
             \o [i \in 1..Len(sorted_tags) |->
                   IF ~sorted_tags[i].has
                   THEN Line("Untagged", NoStr,
                             SummaryCount(s.tag_summaries, sorted_tags[i]), 0, 0)
                   ELSE Line("Tag", sorted_tags[i],
                             SummaryCount(s.tag_summaries, sorted_tags[i]), 0, 0)]
             \o <<Text("--------------------"),
                  Line("Grand Total", NoStr, s.grand_total, 0, 0)>>

\* dt_obj.astimezone(): the local date and hour of a stored timestamp.
LocalHour(dt, tz) == (dt.hour + tz) % 24

\* The group_by_date branch: a date header whenever the local date differs
\* from the header printed last, a blank line before every header but the first.
RECURSIVE DetailsByDate(_, _, _)
DetailsByDate(entries, header, tz) ==
    IF entries = <<>> THEN <<>>
    ELSE LET e  == Head(entries)
             dt == fromisoformat(e.entry_datetime)
             d  == LocalDate(dt, tz)
             entry_line == Line(IF e.tag.has THEN "Tag" ELSE "Untagged", e.tag,
                                e.strikes_count, d, LocalHour(dt, tz))
         IN  (IF header = SomeInt(d) THEN <<>>
              ELSE (IF header.has THEN <<Text("")>> ELSE <<>>)
                   \o <<Line("date header", NoStr, 0, d, 0)>>)
             \o <<entry_line>>
             \o DetailsByDate(Tail(entries), SomeInt(d), tz)

\* "Untagged"
UntaggedKey == <<85, 110, 116, 97, 103, 103, 101, 100>>

\* tag_key = db_tag if db_tag is not None else "Untagged"
tag_key(db_tag) == IF db_tag.has THEN db_tag.v ELSE UntaggedKey

\* sorted(entries_by_tag.keys())
RECURSIVE SortKeys(_)
SortKeys(S) ==
    IF S = {} THEN <<>>
    ELSE LET m == CHOOSE x \in S : \A y \in S \ {x} : StrLess(x, y)
         IN  <<m>> \o SortKeys(S \ {m})

\* The lines of one tag group: its header and its entries in fetched order.
TagGroup(entries, key, tz) ==
    LET mine == SelectSeq(entries, LAMBDA e : tag_key(e.tag) = key)
    IN  <<IF key = UntaggedKey THEN Text("Untagged Entries:")
          ELSE Line("Details for Tag", SomeStr(key), 0, 0, 0)>>
        \o [i \in 1..Len(mine) |->
              LET dt == fromisoformat(mine[i].entry_datetime)
              IN  Line("entry", NoStr, mine[i].strikes_count,
                       LocalDate(dt, tz), LocalHour(dt, tz))]

RECURSIVE TagGroups(_, _, _, _)
TagGroups(entries, sorted_tags, i, tz) ==
    IF i > Len(sorted_tags) THEN <<>>
    ELSE (IF i > 1 THEN <<Text("")>> ELSE <<>>)
         \o TagGroup(entries, sorted_tags[i], tz)
         \o TagGroups(entries, sorted_tags, i + 1, tz)

\* The group-by-tag branch.
DetailsByTag(entries, tz) ==
    LET sorted_tags == SortKeys({tag_key(entries[i].tag) : i \in 1..Len(entries)})
    IN  TagGroups(entries, sorted_tags, 1, tz)

\* query_strike_details: what is printed for the fetched entries.
query_strike_details(entries, filter_tag, group_by_date, tz) ==
    IF entries = <<>>
    THEN IF Truthy(processed_tag(filter_tag))
         THEN <<Line("No strike entries found for tag",
                     processed_tag(filter_tag), 0, 0, 0)>>
         ELSE <<Text("No strike entries recorded yet.")>>
    ELSE IF group_by_date THEN DetailsByDate(entries, NoInt, tz)
         ELSE DetailsByTag(entries, tz)

(***************************************************************************)
(* The program: one invocation of main() after another on the same         *)
(* database file.                                                          *)
(*   rows, last_id, db_exists  the database file: the strike_log rows, the *)
(*                             AUTOINCREMENT counter, whether the table    *)
(*                             has been created                            *)
(*   pc                        where the running invocation stands         *)
(*   argv, args                its argument list and parsed namespace      *)
(*   out, err, status          its stdout, stderr and exit status          *)
(*   opened, conns             connections it has opened / still holds     *)
(*   entries, tz               what its detail query fetched, and the      *)
(*                             local time zone it ran in                   *)
(***************************************************************************)
VARIABLES rows, last_id, db_exists, pc, argv, args, out, err, status,
          opened, conns, entries, tz

vars == <<rows, last_id, db_exists, pc, argv, args, out, err, status,
          opened, conns, entries, tz>>

database == <<rows, last_id, db_exists>>

\* What a detail query fetched, and the time zone it ran in.
fetched == <<entries, tz>>

NoArgv ==
    [count |-> FALSE, summary |-> FALSE, detail |-> FALSE, by_date |-> FALSE,
     info |-> FALSE, filter_tag |-> NoStr,
     amount |-> [kind |-> "absent", v |-> 0], session_tag |-> NoStr]

\* An empty data directory and no process running.
Init ==
    /\ rows = <<>>
    /\ last_id = 0
    /\ db_exists = FALSE
    /\ pc = "idle"
    /\ argv = NoArgv
    /\ args = NoNamespace
    /\ out = <<>>
    /\ err = <<>>
    /\ status = 0
    /\ opened = 0
    /\ conns = 0
    /\ entries = <<>>
    /\ tz = 0

\* Variant: the App (and with it the database) is constructed before the
\* arguments are validated.
main_parse_after_App(a, cap) ==
    /\ pc = "idle"
    /\ LET r == parse_arguments(a)
       IN  /\ (r.ok /\ r.ns.operation_mode = "add_entry"
                    /\ ~invalid_count(r.ns.count_to_add.v)) => Len(rows) < cap
           /\ argv' = a
           /\ args' = r.ns
           /\ IF r.ok
              THEN /\ pc' = "ready"
                   /\ UNCHANGED <<err, status>>
              ELSE /\ pc' = "exited"
                   /\ err' = <<"usage", r.msg>>
                   /\ status' = r.status
    /\ db_exists' = TRUE
    /\ opened' = opened + 1
    /\ UNCHANGED <<rows, last_id, out, conns, fetched>>

\* main, line 426: args = _parse_arguments(argv).  A usage error ends the
\* process there.  (An add that would grow the log past cap is not started.)
main_parse(a, cap) ==
    /\ pc = "idle"
    /\ LET r == parse_arguments(a)
       IN  /\ (r.ok /\ r.ns.operation_mode = "add_entry"
                    /\ ~invalid_count(r.ns.count_to_add.v)) => Len(rows) < cap
           /\ argv' = a
           /\ args' = r.ns
           /\ IF r.ok
              THEN /\ pc' = "parsed"
                   /\ UNCHANGED <<err, status>>
              ELSE /\ pc' = "exited"
                   /\ err' = <<"usage", r.msg>>
                   /\ status' = r.status
    /\ UNCHANGED <<database, out, opened, conns, fetched>>

\* The except clauses of main: the message on stderr and exit status 1.
Raise(message) ==
    /\ pc' = "exited"
    /\ err' = <<message>>
    /\ status' = 1

\* A Database method whose statement raises: the connection it opened is
\* not closed, and nothing is committed.  The actions below take the
\* parameter faults: whether the storage may fail in the run.
StorageError ==
    /\ opened' = opened + 1
    /\ conns' = conns + 1
    /\ Raise("An unexpected error occurred")
    /\ UNCHANGED <<database, argv, args, out, fetched>>

\* App.__init__ -> Database.__init__ -> _initialize_db: CREATE TABLE IF NOT
\* EXISTS on a fresh connection.
App_init(faults) ==
    /\ pc = "parsed"
    /\ \/ /\ db_exists' = TRUE
          /\ opened' = opened + 1
          /\ pc' = "ready"
          /\ UNCHANGED <<rows, last_id, argv, args, out, err, status, conns,
                         fetched>>
       \/ faults /\ StorageError

\* return 0 at the end of main.
Return0(lines) ==
    /\ pc' = "exited"
    /\ out' = lines
    /\ status' = 0
    /\ UNCHANGED <<argv, args, err>>

display_app_info ==
    /\ pc = "ready"
    /\ args.operation_mode = "info"
    /\ Return0(<<Text("Information:"), Text("Version"), Text("Database Path")>>)
    /\ UNCHANGED <<database, opened, conns, fetched>>

\* App.query_strike_details in a local time zone of the pool: entries is
\* what get_strike_details returned.
main_detail(faults) ==
    /\ pc = "ready"
    /\ args.operation_mode = "detail"
    /\ \/ /\ tz' \in TzPool
          /\ entries' \in get_strike_details(
                              rows, processed_tag(args.filter_tag),
                              args.by_date, tz')
          /\ Return0(query_strike_details(entries', args.filter_tag,
                                          args.by_date, tz'))
          /\ opened' = opened + 1
          /\ UNCHANGED <<database, conns>>
       \/ faults /\ StorageError

main_summary(faults) ==
    /\ pc = "ready"
    /\ args.operation_mode = "summary"
    /\ \/ /\ Return0(query_summary(rows))
          /\ opened' = opened + 1
          /\ UNCHANGED <<database, conns, fetched>>
       \/ faults /\ StorageError

main_count_total(faults) ==
    /\ pc = "ready"
    /\ args.operation_mode = "count_total"
    /\ \/ /\ Return0(query_total_strikes(rows, args.filter_tag))
          /\ opened' = opened + 1
          /\ UNCHANGED <<database, conns, fetched>>
       \/ faults /\ StorageError

\* App.add_strike_entry when the UTC clock reads now.
main_add_entry(faults) ==
    /\ pc = "ready"
    /\ args.operation_mode = "add_entry"
    /\ \/ /\ invalid_count(args.count_to_add.v)
          /\ Raise("Error: Strike count must be a positive integer.")
          /\ UNCHANGED <<database, argv, args, out, opened, conns, fetched>>
       \/ /\ ~invalid_count(args.count_to_add.v)
          /\ \E now \in ClockPool :
               rows' = Database_add_strike_entry(
                          rows, last_id, args.count_to_add.v, now,
                          processed_tag(args.session_tag))
          /\ last_id' = last_id + 1
          /\ Return0(<<Line("Successfully added",
                            processed_tag(args.session_tag),
                            args.count_to_add.v, 0, 0)>>)
          /\ opened' = opened + 1
          /\ UNCHANGED <<db_exists, conns, fetched>>
       \/ /\ faults
          /\ ~invalid_count(args.count_to_add.v)
          /\ StorageError

\* The process is gone; the next invocation starts from the same file.
main_exit ==
    /\ pc = "exited"
    /\ pc' = "idle"
    /\ argv' = NoArgv
    /\ args' = NoNamespace
    /\ out' = <<>>
    /\ err' = <<>>
    /\ status' = 0
    /\ opened' = 0
    /\ conns' = 0
    /\ entries' = <<>>
    /\ tz' = 0
    /\ UNCHANGED database

Dispatch(faults) ==
    \/ App_init(faults)
    \/ display_app_info
    \/ main_detail(faults)
    \/ main_summary(faults)
    \/ main_count_total(faults)
    \/ main_add_entry(faults)
    \/ main_exit

\* <count_to_add> [session_tag]
Add(n, t) ==
    [NoArgv EXCEPT !.amount = [kind |-> "int", v |-> n], !.session_tag = t]

\* The argument lists run against a deep log: the adds 1, 2, 1 "", 2 ab,
\* 2 Ab, 1 1, 0 and -1; --info, --summary, --count, --filter-tag Ab, --detail,
\* --detail --by-date, --detail --count --filter-tag Ab, --detail --by-date
\* --filter-tag 1, and the rejected --summary --by-date.
StoreArgLists ==
    { Add(1, NoStr), Add(2, NoStr), Add(1, SomeStr(<<>>)),
      Add(2, SomeStr(<<97, 98>>)), Add(2, SomeStr(<<65, 98>>)),
      Add(1, SomeStr(<<49>>)), Add(0, NoStr), Add(-1, NoStr) }
    \cup { [NoArgv EXCEPT !.info = TRUE],
           [NoArgv EXCEPT !.summary = TRUE],
           [NoArgv EXCEPT !.count = TRUE],
           [NoArgv EXCEPT !.filter_tag = SomeStr(<<65, 98>>)],
           [NoArgv EXCEPT !.detail = TRUE],
           [NoArgv EXCEPT !.detail = TRUE, !.by_date = TRUE],
           [NoArgv EXCEPT !.detail = TRUE, !.count = TRUE,
                          !.filter_tag = SomeStr(<<65, 98>>)],
           [NoArgv EXCEPT !.detail = TRUE, !.by_date = TRUE,
                          !.filter_tag = SomeStr(<<49>>)],
           [NoArgv EXCEPT !.summary = TRUE, !.by_date = TRUE] }

\* The store specification: a deep log, a storage that does not fail.
Next == (\E a \in StoreArgLists : main_parse(a, MaxEntries)) \/ Dispatch(FALSE)

Spec == Init /\ [][Next]_vars

\* The command-line specification: every argument list, against a shallow
\* log and a storage that may fail.
NextCli == (\E a \in ArgLists : main_parse(a, CliMaxEntries)) \/ Dispatch(TRUE)

SpecCli == Init /\ [][NextCli]_vars

(***************************************************************************)
(* Properties of the command-line resolver, checked under SpecCli.         *)
(***************************************************************************)
\* The invocation ended in parser.error.
UsageError == pc = "exited" /\ err # <<>> /\ err[1] = "usage"

\* The invocation's argument list passed _parse_arguments.
Accepted == pc \in {"parsed", "ready"} \/ (pc = "exited" /\ ~UsageError)

\* The mode signals an argument list carries.
ModeSignals(a) ==
    {m \in {"info", "detail", "summary", "count", "amount"} :
        \/ m = "info" /\ a.info
        \/ m = "detail" /\ a.detail
        \/ m = "summary" /\ a.summary
        \/ m = "count" /\ a.count
        \/ m = "amount" /\ a.amount.kind # "absent"}

\* C1 as stated: every invocation the resolver rejects as a usage error ends
\* with exit status 1 and a message on stderr.
C1_UsageErrorExits1 == UsageError => status = 1 /\ Len(err) >= 2

\* C1, amended: every invocation the resolver rejects as a usage error ends
\* with exit status 2 (parser.error's status) and the usage text and the
\* error message on stderr; nothing is printed on stdout.
C1_UsageErrorExits2 ==
    UsageError => status = 2 /\ Len(err) = 2 /\ err[2] # "" /\ out = <<>>

\* An amount positional together with --count has been rejected.
C1_Witness ==
    /\ UsageError
    /\ argv.amount.kind = "int" /\ argv.count
    /\ err[2] = "<count_to_add> and [session_tag] cannot be used with --count or --filter-tag."

\* C2 as stated: an accepted argument list yields one of the five modes and
\* never carries two of the mode signals.
C2_NoAcceptedListHasTwoSignals ==
    Accepted =>
        /\ args.operation_mode \in
              {"info", "detail", "summary", "count_total", "add_entry"}
        /\ Cardinality(ModeSignals(argv)) < 2

\* C2, amended: an accepted argument list yields one of the five modes; a
\* list with two or more mode signals is rejected as a usage error unless its
\* signals are exactly --detail and --count and it carries a non-empty
\* --filter-tag, and every such list is accepted and runs in detail mode.
C2_TwoSignalsOnlyDetailCountFilter ==
    /\ Accepted =>
          /\ args.operation_mode \in
                {"info", "detail", "summary", "count_total", "add_entry"}
          /\ Cardinality(ModeSignals(argv)) >= 2 =>
                /\ ModeSignals(argv) = {"detail", "count"}
                /\ Truthy(argv.filter_tag)
                /\ args.operation_mode = "detail"
    /\ UsageError =>
          ~(ModeSignals(argv) = {"detail", "count"} /\ Truthy(argv.filter_tag))

\* --detail --count --filter-tag a has run to the end as a detail query.
C2_Witness ==
    /\ pc = "exited" /\ status = 0
    /\ argv.detail /\ argv.count /\ Truthy(argv.filter_tag)
    /\ args.operation_mode = "detail"

\* C3: an invocation whose argument list fails the resolver's validation
\* ends without having opened a connection to the database (and so without
\* creating the file or table, inserting or querying).
C3_NoStorageAccessOnUsageError == UsageError => opened = 0 /\ conns = 0

\* A usage error on a machine where the database has never been created:
\* it still has not been.
C3_Witness == UsageError /\ ~db_exists /\ argv.summary /\ argv.detail

(***************************************************************************)
(* Properties of the store and of what the modes print, checked under      *)
(* Spec.                                                                   *)
(***************************************************************************)
\* An invocation in the given mode is about to run its query.
QueryReady(mode) == pc = "ready" /\ args.operation_mode = mode

\* Two texts are equal but for letter case.
CiEq(a, b) == PyLower(a) = PyLower(b)

\* Two nullable tags name the same group: both absent, or equal but for case.
SameTag(x, y) == x.has = y.has /\ (x.has => CiEq(x.v, y.v))

\* Tag x stands before tag y: untagged first, then case-insensitive ascending.
TagBefore(x, y) ==
    \/ ~x.has /\ y.has
    \/ x.has /\ y.has /\ StrLess(PyLower(x.v), PyLower(y.v))

\* The sum of the counts of the rows whose tag equals T but for case.
TotalOfMatching(rs, T) ==
    SumCounts(SelectSeq(rs, LAMBDA r : r.tag.has /\ CiEq(r.tag.v, T)))

\* C4: every step of an add-entry invocation whose count is 0 or negative
\* leaves the rows, and so total(None), as they were, and the invocation
\* ends with exit status 1; the add step itself ends it with the validation
\* message on stderr.
C4_NonPositiveCountAppendsNothing ==
    [][(args'.operation_mode = "add_entry" /\ args'.count_to_add.v <= 0) =>
          /\ rows' = rows
          /\ get_total_strikes(rows', NoStr) = get_total_strikes(rows, NoStr)
          /\ pc' = "exited" => status' = 1
          /\ (pc = "ready" /\ pc' = "exited") =>
                err' = <<"Error: Strike count must be a positive integer.">>]_vars

\* An add of a negative count has failed against a log that holds rows.
C4_Witness ==
    /\ pc = "exited" /\ args.operation_mode = "add_entry"
    /\ args.count_to_add.v < 0 /\ status = 1
    /\ err = <<"Error: Strike count must be a positive integer.">>
    /\ rows # <<>>

\* C5 as stated: for every filter tag T, total(T) is the sum of the counts of
\* exactly the rows whose tag equals T but for case; total(None) is the sum of
\* all counts; every total is a natural number, 0 when nothing matches.
C5_TotalOfEveryFilter ==
    QueryReady("count_total") =>
    /\ get_total_strikes(rows, NoStr) = SumCounts(rows)
    /\ \A T \in TagPool :
          get_total_strikes(rows, SomeStr(T)) = TotalOfMatching(rows, T)
    /\ \A f \in OptTagPool : get_total_strikes(rows, f) \in Nat

\* C5, amended: the same for every non-empty filter tag T; the empty string
\* is no filter, and total("") is the sum of all counts like total(None).
C5_TotalOfNonEmptyFilter ==
    QueryReady("count_total") =>
    /\ get_total_strikes(rows, NoStr) = SumCounts(rows)
    /\ \A T \in TagPool \ {<<>>} :
          get_total_strikes(rows, SomeStr(T)) = TotalOfMatching(rows, T)
    /\ get_total_strikes(rows, SomeStr(<<>>)) = SumCounts(rows)
    /\ \A f \in OptTagPool : get_total_strikes(rows, f) \in Nat

\* The log holds a row tagged "a", a row with another tag and an untagged row.
C5_Witness ==
    /\ Len(rows) = 3
    /\ \E i, j, k \in 1..3 :
          /\ rows[i].tag = SomeStr(<<97, 98>>)
          /\ rows[j].tag = SomeStr(<<49>>)
          /\ rows[k].tag = NoStr

\* C6: summary()'s grand total equals total(None) and the sum of the values
\* of the mapping; on the empty log the mapping is empty and the total 0.
C6_GrandTotalIsTotal ==
    QueryReady("summary") =>
    LET s == get_summary_by_tag(rows)
    IN  /\ s.grand_total = get_total_strikes(rows, NoStr)
        /\ s.grand_total = SumN(s.tag_summaries)
        /\ rows = <<>> => s.tag_summaries = <<>> /\ s.grand_total = 0

\* A summary has been printed of a log with two rows of one tag and an
\* untagged row.
C6_Witness ==
    /\ pc = "exited" /\ args.operation_mode = "summary" /\ status = 0
    /\ Len(rows) = 3
    /\ rows[1].tag = NoStr /\ rows[2].tag.has /\ rows[3].tag = rows[2].tag

\* The rows a query with filter f selects.
Selected(rs, f) == {WhereTag(rs, f)[n] : n \in 1..Len(WhereTag(rs, f))}

\* An add-entry invocation has appended its row.
AddDone == pc = "exited" /\ args.operation_mode = "add_entry" /\ status = 0

\* What C7 says of the row just added with tag t: it is matched by every
\* filter that equals t but for case, and the summary holds one group, keyed
\* by the lowercase tag, for all rows whose tag equals t but for case.
MatchedAndGrouped(t) ==
    LET e == rows[Len(rows)]
        s == get_summary_by_tag(rows).tag_summaries
    IN  /\ \A F \in TagPool :
              CiEq(F, t) => e \in Selected(rows, processed_tag(SomeStr(F)))
        /\ \E i \in 1..Len(s) :
              /\ s[i].tag = SomeStr(PyLower(t))
              /\ s[i].n = TotalOfMatching(rows, t)
              /\ \A j \in 1..Len(s) :
                    (s[j].tag.has /\ CiEq(s[j].tag.v, t)) => j = i

\* C7 as stated: every entry added with a tag is stored with the lowercase
\* form of the tag, matched and grouped accordingly.
C7_EveryTagStoredLowercase ==
    (AddDone /\ args.session_tag.has) =>
        /\ rows[Len(rows)].tag = SomeStr(PyLower(args.session_tag.v))
        /\ MatchedAndGrouped(args.session_tag.v)

\* C7, amended: every entry added with a non-empty tag is stored with the
\* lowercase form of the tag, matched and grouped accordingly; an entry
\* added with the empty string as its tag is stored untagged.
C7_NonEmptyTagStoredLowercase ==
    /\ (AddDone /\ Truthy(args.session_tag)) =>
          /\ rows[Len(rows)].tag = SomeStr(PyLower(args.session_tag.v))
          /\ MatchedAndGrouped(args.session_tag.v)
    /\ (AddDone /\ args.session_tag = SomeStr(<<>>)) =>
          rows[Len(rows)].tag = NoStr

\* An entry has been added with tag "A" to a log that holds a row added with
\* tag "a".
C7_Witness ==
    /\ AddDone /\ args.session_tag = SomeStr(<<65, 98>>)
    /\ Len(rows) >= 2 /\ rows[1].tag = SomeStr(<<97, 98>>)

\* The rows a details query with filter f is to return: those whose tag
\* equals a non-empty f but for case, all rows when f is None or "".
Matching(rs, f) ==
    IF Truthy(f)
    THEN SelectSeq(rs, LAMBDA r : r.tag.has /\ CiEq(r.tag.v, f.v))
    ELSE rs

\* The instant an entry's text stands for.
InstantOf(e) == fromisoformat(e.entry_datetime)

\* A detail query has fetched its entries and printed its listing, grouped
\* by date or not.
DetailDone(group_by_date) ==
    /\ pc = "exited" /\ status = 0
    /\ args.operation_mode = "detail" /\ args.by_date = group_by_date

\* C8: on whatever log and with whatever filter a detail query by tag has
\* run, the sequence details returned in tag_then_date order holds as many
\* entries as match (none when nothing matches); the entries of one tag are
\* contiguous; the groups stand in case-insensitive ascending order of tag
\* with the untagged group first; and of two entries with the same tag the
\* one with the later timestamp stands first.
C8_TagThenDateOrder ==
    DetailDone(FALSE) =>
       /\ Len(entries) = Len(Matching(rows, args.filter_tag))
       /\ \A i, j \in 1..Len(entries) :
             i < j =>
                /\ SameTag(entries[i].tag, entries[j].tag) =>
                      /\ ~Earlier(InstantOf(entries[i]), InstantOf(entries[j]))
                      /\ \A k \in i..j : SameTag(entries[i].tag, entries[k].tag)
                /\ ~SameTag(entries[i].tag, entries[j].tag) =>
                      TagBefore(entries[i].tag, entries[j].tag)

\* A detail listing by tag has been printed of a log whose first and third
\* rows share a tag, the first earlier than the third, and whose second row
\* has another tag.
C8_Witness ==
    /\ pc = "exited" /\ args.operation_mode = "detail" /\ status = 0
    /\ ~args.by_date /\ ~args.filter_tag.has
    /\ Len(rows) = 3
    /\ rows[1].tag = rows[3].tag /\ rows[2].tag # rows[1].tag
    /\ Earlier(InstantOf(rows[1]), InstantOf(rows[3]))

\* The local dates of the date headers of a listing, in printed order.
HeaderDates(lines) ==
    LET hs == SelectSeq(lines, LAMBDA l : l.k = "date header")
    IN  [i \in 1..Len(hs) |-> hs[i].d]

SummaryDone == pc = "exited" /\ args.operation_mode = "summary" /\ status = 0

\* The frame of a printed summary: on the empty log only the "no strikes
\* recorded yet" message; otherwise the heading, one line per group with the
\* group's sum, a rule and the grand total.
SummaryFrame ==
    IF rows = <<>>
    THEN out = <<Text("No strikes recorded yet.")>>
    ELSE /\ Len(out) >= 4
         /\ out[1] = Text("Strike Summary:")
         /\ out[Len(out) - 1] = Text("--------------------")
         /\ out[Len(out)] = Line("Grand Total", NoStr, SumCounts(rows), 0, 0)
         /\ \A i \in 2..(Len(out) - 2) :
               \/ out[i] = Line("Untagged", NoStr,
                                SumCounts(SelectSeq(rows, LAMBDA r : ~r.tag.has)),
                                0, 0)
               \/ /\ out[i].k = "Tag" /\ out[i].tag.has
                  /\ out[i].n = TotalOfMatching(rows, out[i].tag.v)
                  /\ out[i].n > 0
         /\ \A r \in {rows[n] : n \in 1..Len(rows)} :
               \E i \in 2..(Len(out) - 2) : out[i].tag = r.tag

\* C10 as stated: the summary prints the untagged group first, then the
\* tagged groups in alphabetical order, then the grand total; on the empty
\* log only the "no strikes recorded yet" message.
C10_SummaryUntaggedFirst ==
    SummaryDone =>
        /\ SummaryFrame
        /\ \A i, j \in 2..(Len(out) - 2) :
              i < j =>
                 \/ out[i].k = "Untagged" /\ out[j].k = "Tag"
                 \/ /\ out[i].k = "Tag" /\ out[j].k = "Tag"
                    /\ StrLess(out[i].tag.v, out[j].tag.v)

\* C10, amended: the summary prints the tagged groups in alphabetical order,
\* then the untagged group, then the grand total; on the empty log only the
\* "no strikes recorded yet" message.
C10_SummaryUntaggedLast ==
    SummaryDone =>
        /\ SummaryFrame
        /\ \A i, j \in 2..(Len(out) - 2) :
              i < j =>
                 \/ out[i].k = "Tag" /\ out[j].k = "Untagged"
                 \/ /\ out[i].k = "Tag" /\ out[j].k = "Tag"
                    /\ StrLess(out[i].tag.v, out[j].tag.v)

\* A summary of two tagged groups and the untagged group has been printed.
C10_Witness ==
    /\ SummaryDone
    /\ Len(out) = 6
    /\ \E i \in 2..4 : out[i].k = "Untagged"

(***************************************************************************)
(* Connections, checked under SpecCli (the storage may fail there).        *)
(***************************************************************************)
\* C11: every Store operation (initialize, insert, total, summary, details)
\* releases the connection it opened on every exit path: whenever an
\* operation has returned or raised, no connection it opened is still open.
C11_EveryConnectionReleased == conns = 0

(***************************************************************************)
(* --filter-tag without a mode flag, checked under SpecCli.                *)
(***************************************************************************)
\* The invocation's argument list carries a --filter-tag value and none of
\* --info, --detail, --summary.
FilterTagOnly ==
    /\ pc # "idle"
    /\ argv.filter_tag.has /\ ~argv.info /\ ~argv.detail /\ ~argv.summary

\* C12: whenever a --filter-tag value is supplied and no --info, --detail or
\* --summary flag is given, the resolver selects count_total mode, with or
\* without --count and for every filter-tag value: the list is accepted, in
\* count_total mode, when it carries nothing else that count_total forbids,
\* and it is rejected as a usage error when it carries the amount or
\* session-tag positional.
C12_FilterTagForcesCountTotal ==
    FilterTagOnly =>
       /\ Accepted => args.operation_mode = "count_total"
       /\ (argv.amount.kind = "absent" /\ ~argv.by_date) => Accepted
       /\ argv.amount.kind # "absent" => UsageError

(***************************************************************************)
(* The log as a whole, checked under SpecCli.                              *)
(***************************************************************************)
\* The step is an add-entry invocation appending its row and returning 0.
SuccessfulAdd ==
    /\ pc = "ready" /\ args.operation_mode = "add_entry"
    /\ pc' = "exited" /\ status' = 0

\* C13: the log is append-only.  A step that is a successful add-entry
\* appends exactly one row, keeps every earlier row as it was, and gives the
\* new row an id greater than every id in the log and every id assigned
\* before; every other step (info, count_total, summary, detail, a failing
\* add, a usage error, the construction of the Store on a new or an existing
\* database) leaves the rows unchanged.
C13_AppendOnly ==
    [][ /\ SuccessfulAdd =>
             /\ Len(rows') = Len(rows) + 1
             /\ SubSeq(rows', 1, Len(rows)) = rows
             /\ rows'[Len(rows')].id > last_id
             /\ \A i \in 1..Len(rows) : rows[i].id < rows'[Len(rows')].id
        /\ ~SuccessfulAdd => rows' = rows ]_vars

\* A second row has been appended, after an invocation on the existing
\* database, with an id above the first row's.
C13_Witness ==
    /\ AddDone /\ opened = 2
    /\ Len(rows) = 2 /\ rows[1].id < rows[2].id /\ last_id = rows[2].id

(***************************************************************************)
(* The group-by-tag listing against the Store's order, checked under Spec. *)
(***************************************************************************)
\* The tags of a fetched sequence in order of first appearance.
RECURSIVE GroupsOf(_)
GroupsOf(es) ==
    IF es = <<>> THEN <<>>
    ELSE <<Head(es).tag>>
         \o GroupsOf(SelectSeq(Tail(es), LAMBDA e : e.tag # Head(es).tag))

\* The tags of the group headers of a listing, in printed order (the
\* untagged group's header stands for no tag).
HeaderTags(lines) ==
    LET hs == SelectSeq(lines, LAMBDA l : l.k \in {"Untagged Entries:",
                                                   "Details for Tag"})
    IN  [i \in 1..Len(hs) |-> hs[i].tag]

\* The entry lines of a listing, in printed order.
EntryLines(lines) == SelectSeq(lines, LAMBDA l : l.k = "entry")

\* C14: the group-by-tag listing of a detail query presents the tag groups
\* in the order of the Store's tag_then_date result (untagged group first,
\* then tags ascending) and the entries of each group in the Store's order:
\* its headers name the tags in the order the result holds them, and its
\* entry lines are the result's entries in the result's order.
C14_ListingKeepsStoreOrder ==
    (DetailDone(FALSE) /\ entries # <<>>) =>
       /\ HeaderTags(out) = GroupsOf(entries)
       /\ EntryLines(out) =
             [i \in 1..Len(entries) |->
                LET dt == InstantOf(entries[i])
                IN  Line("entry", NoStr, entries[i].strikes_count,
                         LocalDate(dt, tz), LocalHour(dt, tz))]

====
